---- MODULE Spec2Model ----
(***************************************************************************)
(* Graph construction of mofcgcnn/data.py: CIFData.__getitem__ behind its  *)
(* functools.lru_cache, and collate_pool.                                  *)
(*                                                                         *)
(* Lengths are integers in the structure's length unit.  A neighbour, the  *)
(* tuple (site, dist, index, image) of pymatgen, is the record             *)
(* [dist, index]: x[1] and x[2] are the only components the code reads.    *)
(* Python's 0-based atom indices are kept; a TLA+ sequence holding the     *)
(* value of atom a has it at position a + 1.                               *)
(***************************************************************************)
EXTENDS Integers, Sequences, FiniteSets

\* Bounds of the model.
MaxAtoms == 2          \* atoms of one structure
MaxEdges == 2          \* neighbours all spatial queries of one structure return together
MaxNumNbr == 2         \* max_num_nbr is drawn from 1..MaxNumNbr
MaxMetalNumNbr == 1    \* metal_max_num_nbr is drawn from 0..MaxMetalNumNbr
MaxRadius == 2         \* radius and metal_radius, in length units
MaxDataset == 3        \* rows of id_prop_data
MaxBatch == 3          \* data points handed to collate_pool
MaxBatchAtoms == 4     \* atoms of all data points of one batch together

\* None is the empty list, a value v the one-element list <<v>>, wherever a
\* variable holds either.
None == <<>>
Some(v) == <<v>>

VARIABLES
    \* CIFData and the cache of __getitem__
    self,            \* the CIFData object: its configuration and len(id_prop_data)
    cache,           \* lru_cache's dictionary: key idx |-> cif_id of the stored Sample
                     \* (a function on the set of keys)
    pc,              \* position of the run inside / outside __getitem__
    idx,             \* argument of the __getitem__ call in progress (or the last one)
    crystal,         \* Structure.from_file(...): [n, is_metal]
    metal_index,     \* list of the metal atoms' indices
    metal_neighs,    \* get_neighbors(site, metal_radius) of the metal atoms handled so far
    metal_nbr_idx,   \* one padded/truncated index row per metal atom handled so far
    all_nbrs,        \* the sorted neighbour lists of the atoms handled so far
    nbrs,            \* get_all_neighbors(radius) of the atom handled last, unsorted
    nbr,             \* loop variable: the sorted neighbour list being padded/truncated
    nbr_fea_idx,     \* one index row per atom handled so far
    nbr_fea,         \* one distance row per atom handled so far (before gdf.expand)
    M1_idx,          \* list(set(M_idx) | set(metal_index)), empty until computed
    warned,          \* kinds of warnings.warn emitted by the call
    ret,             \* cif_id of the Sample the last call handed back, None if none
    \* collate_pool
    dataset_list,    \* its argument
    cpc,             \* position inside collate_pool
    i,               \* loop counter of enumerate(dataset_list)
    base_idx, base_m1_idx,
    batch_atom_fea, batch_nbr_fea_idx, batch_m1_index,
    crystal_atom_idx, batch_cif_ids,
    out              \* the tuple collate_pool returns, None before it returns

item_vars == <<self, cache, pc, idx, crystal, metal_index, metal_neighs,
               metal_nbr_idx, all_nbrs, nbrs, nbr,
               nbr_fea_idx, nbr_fea, M1_idx, warned, ret>>
collate_vars == <<dataset_list, cpc, i, base_idx, base_m1_idx, batch_atom_fea,
                  batch_nbr_fea_idx, batch_m1_index, crystal_atom_idx,
                  batch_cif_ids, out>>
vars == <<item_vars, collate_vars>>

----
\* Helpers on sequences.

RECURSIVE SeqSum(_)
SeqSum(s) == IF s = <<>> THEN 0 ELSE Head(s) + SeqSum(Tail(s))

RECURSIVE Flatten(_)
Flatten(ss) == IF ss = <<>> THEN <<>> ELSE Head(ss) \o Flatten(Tail(ss))

Range(s) == {s[k] : k \in DOMAIN s}

\* Sequences over S of length at most n.
SeqsUpTo(S, n) == UNION {[1..k -> S] : k \in 0..n}

\* Python's list(some_set) for a set of ints: the elements once each.
RECURSIVE SetToList(_)
SetToList(S) ==
    IF S = {} THEN <<>>
    ELSE LET m == CHOOSE x \in S : \A y \in S : x <= y
         IN <<m>> \o SetToList(S \ {m})

----
\* CIFData.__getitem__

\* str(self.id_prop_data[idx][0]); the rows' identifiers are their row numbers.
cif_id(k) == k

\* Variant of scan_metal: the metal test left out, every atom is collected.
scan_metal_all(is_metal, a) == [j \in 1..(Len(is_metal) - a) |-> a + j - 1]

\* Lines 178-184: the scan collecting the metal atoms' indices, in atom order.
RECURSIVE scan_metal(_, _)
scan_metal(is_metal, a) ==
    IF a >= Len(is_metal) THEN <<>>
    ELSE (IF is_metal[a + 1] THEN <<a>> ELSE <<>>) \o scan_metal(is_metal, a + 1)

metal_number == Len(metal_index)

\* One step of sorted(): x goes behind every element whose key is not larger.
RECURSIVE insort(_, _)
insort(s, x) ==
    IF s = <<>> THEN <<x>>
    ELSE IF x.dist < Head(s).dist THEN <<x>> \o s
    ELSE <<Head(s)>> \o insort(Tail(s), x)

\* Variant of sorted: the list is left in the order of the query.
sorted_none(l) == l

\* sorted(nbrs, key=lambda x: x[1]): stable, ascending by distance.
RECURSIVE sorted(_)
sorted(l) ==
    IF l = <<>> THEN <<>>
    ELSE insort(sorted(SubSeq(l, 1, Len(l) - 1)), l[Len(l)])

\* [v] * k
Repeat(v, k) == [j \in 1..k |-> v]

\* list(map(lambda x: x[2], l)) and list(map(lambda x: x[1], l))
map_index(l) == [j \in 1..Len(l) |-> l[j].index]
map_dist(l) == [j \in 1..Len(l) |-> l[j].dist]

\* l[:cap]
Slice(l, cap) == SubSeq(l, 1, IF cap < Len(l) THEN cap ELSE Len(l))

\* Variant of index_row: a long list is not cut to cap.
index_row_no_trunc(l, cap) ==
    IF Len(l) < cap THEN map_index(l) \o Repeat(0, cap - Len(l)) ELSE map_index(l)

\* Variant of index_row: a short list is not padded.
index_row_no_pad(l, cap) == map_index(Slice(l, cap))

\* Lines 206-214 and 221-232: the index row of one sorted neighbour list.
index_row(l, cap) ==
    IF Len(l) < cap
    THEN map_index(l) \o Repeat(0, cap - Len(l))
    ELSE map_index(Slice(l, cap))

\* Variant of dist_row: the padding distance is radius itself.
dist_row_pad_radius(l, cap, radius) ==
    IF Len(l) < cap
    THEN map_dist(l) \o Repeat(radius, cap - Len(l))
    ELSE map_dist(Slice(l, cap))

\* Lines 221-234: the distance row of one sorted neighbour list.
dist_row(l, cap, radius) ==
    IF Len(l) < cap
    THEN map_dist(l) \o Repeat(radius + 1, cap - Len(l))
    ELSE map_dist(Slice(l, cap))

\* Lines 215-218: M_idx, the rows of metal_nbr_idx one after the other.
M_idx == Flatten(metal_nbr_idx)

\* Variant of merge_M1: the two lists joined without passing through a set.
merge_M1_concat(m_idx, metals) == m_idx \o metals

\* Line 236: list(set(M_idx) | set(metal_index)).
merge_M1(m_idx, metals) == SetToList(Range(m_idx) \cup Range(metals))

\* What a spatial query of the structure can return: any list of neighbours
\* with a distance inside the cutoff and an atom's index, at most `room` of them.
Neighbor(n, cutoff) == [dist : 1..cutoff, index : 0..(n - 1)]
Queries(n, cutoff, room) == SeqsUpTo(Neighbor(n, cutoff), room)

\* Neighbours the queries of the call in progress may still return.
EdgesLeft ==
    MaxEdges - SeqSum([m \in 1..Len(metal_neighs) |-> Len(metal_neighs[m])])
             - SeqSum([a \in 1..Len(all_nbrs) |-> Len(all_nbrs[a])])

Structures ==
    UNION {[n : {n}, is_metal : [1..n -> BOOLEAN]] : n \in 1..MaxAtoms}

NoStructure == [n |-> 0, is_metal |-> <<>>]

Configs(lens) ==
    [max_num_nbr : 1..MaxNumNbr, metal_max_num_nbr : 0..MaxMetalNumNbr,
     radius : {MaxRadius}, metal_radius : {MaxRadius}, len : lens]

\* The locals of a call that has not loaded its structure.
ClearLocals ==
    /\ crystal' = NoStructure
    /\ metal_index' = <<>>
    /\ metal_neighs' = <<>>
    /\ metal_nbr_idx' = <<>>
    /\ all_nbrs' = <<>>
    /\ nbrs' = <<>>
    /\ nbr' = <<>>
    /\ nbr_fea_idx' = <<>>
    /\ nbr_fea' = <<>>
    /\ M1_idx' = <<>>
    /\ warned' = {}

InitCollateIdle ==
    /\ dataset_list = <<>>
    /\ cpc = "idle"
    /\ i = 0
    /\ base_idx = 0
    /\ base_m1_idx = 0
    /\ batch_atom_fea = <<>>
    /\ batch_nbr_fea_idx = <<>>
    /\ batch_m1_index = <<>>
    /\ crystal_atom_idx = <<>>
    /\ batch_cif_ids = <<>>
    /\ out = None

InitItem(lens) ==
    /\ self \in Configs(lens)
    /\ cache = [k \in {} |-> 0]
    /\ pc = "idle"
    /\ idx = 0
    /\ crystal = NoStructure
    /\ metal_index = <<>>
    /\ metal_neighs = <<>>
    /\ metal_nbr_idx = <<>>
    /\ all_nbrs = <<>>
    /\ nbrs = <<>>
    /\ nbr = <<>>
    /\ nbr_fea_idx = <<>>
    /\ nbr_fea = <<>>
    /\ M1_idx = <<>>
    /\ warned = {}
    /\ ret = None

Cached(k) == k \in DOMAIN cache

\* dataset[k] with k memoized (line 167): the stored Sample is handed back and
\* the body does not run.
CacheHit(k) ==
    /\ pc = "idle"
    /\ k \in 0..(self.len - 1)
    /\ Cached(k)
    /\ idx' = k
    /\ ret' = Some(cache[k])
    /\ ClearLocals
    /\ UNCHANGED <<self, cache, pc, collate_vars>>

\* dataset[k] with k not memoized: lines 169-184, the structure is read and
\* scanned for metal atoms.
LoadStructure(k) ==
    /\ pc = "idle"
    /\ k \in 0..(self.len - 1)
    /\ ~Cached(k)
    /\ \E c \in Structures :
        /\ crystal' = c
        /\ metal_index' = scan_metal(c.is_metal, 0)
    /\ idx' = k
    /\ ret' = None
    /\ pc' = "build"
    /\ metal_neighs' = <<>>
    /\ metal_nbr_idx' = <<>>
    /\ all_nbrs' = <<>>
    /\ nbrs' = <<>>
    /\ nbr' = <<>>
    /\ nbr_fea_idx' = <<>>
    /\ nbr_fea' = <<>>
    /\ M1_idx' = <<>>
    /\ warned' = {}
    /\ UNCHANGED <<self, cache, collate_vars>>

\* Lines 185-187: no metal atom, sys.exit(0).
ExitNoMetal ==
    /\ pc = "build"
    /\ metal_number = 0
    /\ pc' = "exited"
    /\ UNCHANGED <<self, cache, idx, crystal, metal_index, metal_neighs,
                   metal_nbr_idx, all_nbrs, nbrs, nbr, nbr_fea_idx, nbr_fea, M1_idx,
                   warned, ret, collate_vars>>

\* Lines 196-214 for the next metal atom: its neighbours inside metal_radius,
\* sorted, padded with index 0 or truncated to metal_max_num_nbr.
MetalStep ==
    /\ pc = "build"
    /\ metal_number # 0
    /\ Len(metal_nbr_idx) < metal_number
    /\ \E q \in Queries(crystal.n, self.metal_radius, EdgesLeft) :
        /\ metal_neighs' = Append(metal_neighs, q)
        /\ nbr' = sorted(q)
        /\ metal_nbr_idx' =
               Append(metal_nbr_idx, index_row(sorted(q), self.metal_max_num_nbr))
        /\ warned' = IF Len(q) < self.metal_max_num_nbr
                     THEN warned \cup {"metal"} ELSE warned
    /\ UNCHANGED <<self, cache, pc, idx, crystal, metal_index, all_nbrs, nbrs,
                   nbr_fea_idx, nbr_fea, M1_idx, ret, collate_vars>>

\* Lines 192-193 and 220-234 for the next atom: its neighbours inside radius,
\* sorted, padded with index 0 and distance radius + 1 or truncated to
\* max_num_nbr.
GraphStep ==
    /\ pc = "build"
    /\ metal_number # 0
    /\ Len(metal_nbr_idx) = metal_number
    /\ Len(nbr_fea_idx) < crystal.n
    /\ \E q \in Queries(crystal.n, self.radius, EdgesLeft) :
        /\ nbrs' = q
        /\ all_nbrs' = Append(all_nbrs, sorted(q))
        /\ nbr' = sorted(q)
        /\ nbr_fea_idx' = Append(nbr_fea_idx, index_row(sorted(q), self.max_num_nbr))
        /\ nbr_fea' =
               Append(nbr_fea, dist_row(sorted(q), self.max_num_nbr, self.radius))
        /\ warned' = IF Len(q) < self.max_num_nbr
                     THEN warned \cup {"graph"} ELSE warned
    /\ UNCHANGED <<self, cache, pc, idx, crystal, metal_index, metal_neighs,
                   metal_nbr_idx, M1_idx, ret, collate_vars>>

\* Line 167: functools.lru_cache(maxsize=None).
maxsize == None

\* Store of lru_cache with maxsize=None: one more entry, none dropped.
cache_store(c, k, v) == [j \in DOMAIN c \cup {k} |-> IF j = k THEN v ELSE c[j]]

\* Lines 236-245: the primary index list is formed, the Sample is returned and
\* memoized.
ReturnSample ==
    /\ pc = "build"
    /\ metal_number # 0
    /\ Len(metal_nbr_idx) = metal_number
    /\ Len(nbr_fea_idx) = crystal.n
    /\ M1_idx' = merge_M1(M_idx, metal_index)
    /\ ret' = Some(cif_id(idx))
    /\ cache' = cache_store(cache, idx, cif_id(idx))
    /\ pc' = "idle"
    /\ UNCHANGED <<self, idx, crystal, metal_index, metal_neighs, metal_nbr_idx,
                   all_nbrs, nbrs, nbr, nbr_fea_idx, nbr_fea, warned, collate_vars>>

NextItem ==
    \/ \E k \in 0..(MaxDataset - 1) : CacheHit(k)
    \/ \E k \in 0..(MaxDataset - 1) : LoadStructure(k)
    \/ ExitNoMetal
    \/ MetalStep
    \/ GraphStep
    \/ ReturnSample

\* The defaults of CIFData.__init__ (line 154).
DefaultConfig ==
    [max_num_nbr |-> 10, metal_max_num_nbr |-> 16, radius |-> 6, metal_radius |-> 8,
     len |-> 0]

\* Sample construction: a dataset of one row under every configuration.
Init == InitItem({1}) /\ InitCollateIdle
Spec == Init /\ [][NextItem]_vars

\* Memoization: datasets of up to MaxDataset rows under the configuration with
\* every parameter at its smallest value.
InitCache ==
    /\ InitItem(1..MaxDataset)
    /\ \A c \in Configs({self.len}) :
           /\ self.max_num_nbr <= c.max_num_nbr
           /\ self.metal_max_num_nbr <= c.metal_max_num_nbr
           /\ self.radius <= c.radius
           /\ self.metal_radius <= c.metal_radius
    /\ InitCollateIdle
SpecCache == InitCache /\ [][NextItem]_vars

----
\* Properties of sample construction.

Min(a, b) == IF a < b THEN a ELSE b

\* The one-to-one maps of 1..k into 1..r.
Injections(k, r) ==
    {f \in [1..k -> 1..r] : \A a, b \in 1..k : a # b => f[a] # f[b]}

\* The body of __getitem__ has returned and its locals hold the Sample's parts.
Built == M1_idx # <<>>

\* The main loop has handled an atom: nbrs is that atom's query result and the
\* last rows of nbr_fea_idx and nbr_fea are its rows.
RowDone == Len(nbr_fea_idx) > 0
LastIdxRow == nbr_fea_idx[Len(nbr_fea_idx)]
LastDistRow == nbr_fea[Len(nbr_fea)]

\* The metal atoms of the loaded structure, read off the structure itself.
Metals == {a \in 0..(crystal.n - 1) : crystal.is_metal[a + 1]}
NoMetal == crystal.n > 0 /\ Metals = {}

\* C3: every row of the neighbour index matrix and of the distance matrix has
\* exactly max_num_nbr slots, whatever the number r of real neighbours; when
\* r < max_num_nbr the first r slots hold the real neighbours (each neighbour
\* of the query once) and the remaining slots hold index 0 and distance
\* radius + 1.
C3_RowsPadded ==
    /\ Len(nbr_fea) = Len(nbr_fea_idx)
    /\ \A a \in 1..Len(nbr_fea_idx) :
        /\ Len(nbr_fea_idx[a]) = self.max_num_nbr
        /\ Len(nbr_fea[a]) = self.max_num_nbr
    /\ (RowDone /\ Len(nbrs) < self.max_num_nbr) =>
        LET r == Len(nbrs)
        IN /\ \E f \in Injections(r, r) : \A j \in 1..r :
                  /\ LastIdxRow[j] = nbrs[f[j]].index
                  /\ LastDistRow[j] = nbrs[f[j]].dist
           /\ \A j \in (r + 1)..self.max_num_nbr :
                  /\ LastIdxRow[j] = 0
                  /\ LastDistRow[j] = self.radius + 1

\* C3 witness: the second atom of a structure has one real neighbour, atom 1,
\* and two slots: its rows are padded.
C3_Witness ==
    /\ Len(nbr_fea_idx) = 2
    /\ self.max_num_nbr = 2
    /\ Len(nbrs) = 1
    /\ LastIdxRow = <<1, 0>>
    /\ LastDistRow = <<nbrs[1].dist, self.radius + 1>>

\* C10: the real entries of a row are the min(r, max_num_nbr) closest
\* neighbours of the query in ascending order of distance: each kept entry is a
\* neighbour of the query, none left out is strictly closer than one kept, real
\* distances are at most radius, and the whole distance row, padding included,
\* is non-decreasing.
C10_ClosestAscending ==
    RowDone =>
        LET r == Len(nbrs)
            kept == Min(r, self.max_num_nbr)
        IN /\ \E f \in Injections(kept, r) :
                  /\ \A j \in 1..kept :
                        /\ LastIdxRow[j] = nbrs[f[j]].index
                        /\ LastDistRow[j] = nbrs[f[j]].dist
                  /\ \A l \in 1..r : (\A j \in 1..kept : f[j] # l) =>
                        \A j \in 1..kept : nbrs[l].dist >= LastDistRow[j]
           /\ \A j \in 1..kept : LastDistRow[j] <= self.radius
           /\ \A j \in 1..(Len(LastDistRow) - 1) : LastDistRow[j] <= LastDistRow[j + 1]

\* C10 witness: the query returned the farther neighbour first and only one
\* slot exists: the closer one is kept.
C10_Witness ==
    /\ RowDone
    /\ self.max_num_nbr = 1
    /\ Len(nbrs) = 2
    /\ nbrs[1].dist > nbrs[2].dist
    /\ LastDistRow = <<nbrs[2].dist>>
    /\ LastIdxRow = <<nbrs[2].index>>

\* C4: the primary index vector holds only atom indices of the structure,
\* holds every metal atom's index, and holds no value twice.
C4_PrimaryIndexSet ==
    Built =>
        /\ \A j \in 1..Len(M1_idx) : M1_idx[j] \in 0..(crystal.n - 1)
        /\ Metals \subseteq Range(M1_idx)
        /\ \A j, k \in 1..Len(M1_idx) : j # k => M1_idx[j] # M1_idx[k]

\* C4 witness: two metal atoms, one metal neighbour list padded with index 0
\* and one naming a real neighbour.
C4_Witness ==
    /\ Built
    /\ metal_number = 2
    /\ "metal" \in warned
    /\ \E m \in 1..2 : Len(metal_neighs[m]) = 1
    /\ M1_idx = <<0, 1>>

\* C9 as stated, read on the configurations with at least one metal neighbour
\* slot: the primary index vector is at most metal_max_num_nbr * n_metal long.
C9_Original ==
    (Built /\ self.metal_max_num_nbr >= 1) =>
        Len(M1_idx) <= self.metal_max_num_nbr * metal_number

\* C9 amended: the primary index vector is at most
\* (metal_max_num_nbr + 1) * n_metal long: up to metal_max_num_nbr entries per
\* metal atom from its neighbour row plus the metal atom itself.
C9_PrimaryLength ==
    Built => Len(M1_idx) <= (self.metal_max_num_nbr + 1) * metal_number

\* C9 witness: one metal atom, one slot, and two primary indices.
C9_Witness ==
    /\ Built
    /\ metal_number = 1
    /\ self.metal_max_num_nbr = 1
    /\ Len(M1_idx) = 2

\* The case of C6: exactly one metal atom, no neighbour inside metal_radius,
\* metal_max_num_nbr >= 1.
LoneMetal ==
    /\ metal_number = 1
    /\ metal_neighs = << <<>> >>
    /\ self.metal_max_num_nbr >= 1

\* C6 as stated: for a lone metal atom at any index the primary index set has
\* exactly one element, the warning is emitted and the Sample is produced.
C6_Original ==
    (LoneMetal /\ Built) =>
        /\ Len(M1_idx) = 1
        /\ "metal" \in warned
        /\ ret = Some(cif_id(idx))

\* C6 amended: for a lone metal atom m the warning is emitted, construction goes
\* on and the Sample is produced, and its primary index set is {0, m}: one
\* element when the metal atom is atom 0, two otherwise.
C6_LoneMetal ==
    LoneMetal =>
        /\ "metal" \in warned
        /\ pc # "exited"
        /\ pc = "build" => (ENABLED GraphStep \/ ENABLED ReturnSample)
        /\ Built =>
            /\ Range(M1_idx) = {0, metal_index[1]}
            /\ Len(M1_idx) = (IF metal_index[1] = 0 THEN 1 ELSE 2)
            /\ ret = Some(cif_id(idx))

\* C6 witness: the lone metal atom is atom 1 and the Sample's primary index
\* list is 0, 1.
C6_Witness ==
    /\ LoneMetal
    /\ Built
    /\ metal_index = <<1>>
    /\ M1_idx = <<0, 1>>
    /\ ret = Some(cif_id(idx))

\* C5: on a structure without metal atoms the call raises the fatal condition
\* before any neighbour row is built: nothing is returned or memoized for the
\* identifier, the only step left is the exit, and after it the run has no
\* further step.
C5_NoMetalFatal ==
    /\ NoMetal =>
        /\ ret = None
        /\ ~Cached(idx)
        /\ M1_idx = <<>>
        /\ metal_nbr_idx = <<>>
        /\ nbr_fea_idx = <<>>
        /\ \/ pc = "exited"
           \/ /\ pc = "build"
              /\ ENABLED ExitNoMetal
              /\ ~ENABLED MetalStep
              /\ ~ENABLED GraphStep
              /\ ~ENABLED ReturnSample
    /\ pc = "exited" => (NoMetal /\ ~ENABLED NextItem)

\* C5 witness: the run has stopped on a two-atom structure without metal.
C5_Witness == pc = "exited" /\ crystal.n = 2 /\ NoMetal

\* C7 as stated: the number of memoized Samples stays within a configured
\* finite capacity, or memoization is disabled and nothing is stored.
C7_CacheBounded ==
    \/ maxsize # None /\ Cardinality(DOMAIN cache) <= maxsize[1]
    \/ Cardinality(DOMAIN cache) = 0

----
\* collate_pool
\*
\* A data point is [atom_fea, nbr_fea_idx, m1_index, cif_id]: atom_fea has one
\* row per atom, nbr_fea_idx one row of neighbour indices per atom (rows of one
\* slot here: the code moves every slot by the same offset).  nbr_fea,
\* m2_feature and target are carried through unchanged by the code and are left
\* out.

\* Stand-in for the feature row of atom a of crystal c.
AtomRow(c, a) == <<c, a>>

\* The atom counts of the data points of a batch: at least one data point, at
\* most MaxBatch, with at most MaxBatchAtoms atoms together.
Shapes ==
    {sh \in SeqsUpTo(1..MaxBatchAtoms, MaxBatch) :
        sh # <<>> /\ SeqSum(sh) <= MaxBatchAtoms}

\* Atoms of the data points before the k-th of shape sh.
ShapeOffset(sh, k) == SeqSum(SubSeq(sh, 1, k - 1))

\* The k-th data point (identifier k - 1) of a batch of shape sh, whose atoms,
\* numbered through the batch, have the neighbour nb[.] and are primary atoms
\* where mask[.] holds.
DataPoint(sh, nb, mask, k) ==
    LET off == ShapeOffset(sh, k)
    IN [atom_fea |-> [a \in 1..sh[k] |-> AtomRow(k - 1, a - 1)],
        nbr_fea_idx |-> [a \in 1..sh[k] |-> <<nb[off + a]>>],
        m1_index |-> SetToList({a - 1 : a \in {x \in 1..sh[k] : mask[off + x]}}),
        cif_id |-> k - 1]

\* Every index of a data point is an index of one of its atoms, and every data
\* point has a primary atom.
WellFormed(sh, nb, mask) ==
    \A k \in 1..Len(sh) :
        /\ \A a \in 1..sh[k] : nb[ShapeOffset(sh, k) + a] < sh[k]
        /\ \E a \in 1..sh[k] : mask[ShapeOffset(sh, k) + a]

\* tensor + scalar, on a vector and on a matrix
vec_add(v, b) == [j \in 1..Len(v) |-> v[j] + b]
mat_add(m, b) == [r \in 1..Len(m) |-> vec_add(m[r], b)]

\* np.arange(m) + b
arange_from(m, b) == [j \in 1..m |-> (j - 1) + b]

\* torch.cat(list, dim=0)
cat(l) == Flatten(l)

InitCollate ==
    /\ \E sh \in Shapes :
         \E nb \in [1..SeqSum(sh) -> 0..(MaxBatchAtoms - 1)] :
           \E mask \in [1..SeqSum(sh) -> BOOLEAN] :
             /\ WellFormed(sh, nb, mask)
             /\ dataset_list = [k \in 1..Len(sh) |-> DataPoint(sh, nb, mask, k)]
    /\ cpc = "start"
    /\ i = 0
    /\ base_idx = 0
    /\ base_m1_idx = 0
    /\ batch_atom_fea = <<>>
    /\ batch_nbr_fea_idx = <<>>
    /\ batch_m1_index = <<>>
    /\ crystal_atom_idx = <<>>
    /\ batch_cif_ids = <<>>
    /\ out = None
    /\ self = DefaultConfig
    /\ cache = [k \in {} |-> 0]
    /\ pc = "idle"
    /\ idx = 0
    /\ crystal = NoStructure
    /\ metal_index = <<>>
    /\ metal_neighs = <<>>
    /\ metal_nbr_idx = <<>>
    /\ all_nbrs = <<>>
    /\ nbrs = <<>>
    /\ nbr = <<>>
    /\ nbr_fea_idx = <<>>
    /\ nbr_fea = <<>>
    /\ M1_idx = <<>>
    /\ warned = {}
    /\ ret = None

\* Lines 50-55: the empty batch lists and the two running offsets.
CollateBegin ==
    /\ cpc = "start"
    /\ cpc' = "loop"
    /\ i' = 0
    /\ base_idx' = 0
    /\ base_m1_idx' = 0
    /\ batch_atom_fea' = <<>>
    /\ batch_nbr_fea_idx' = <<>>
    /\ batch_m1_index' = <<>>
    /\ crystal_atom_idx' = <<>>
    /\ batch_cif_ids' = <<>>
    /\ UNCHANGED <<dataset_list, out, item_vars>>

\* Variant of shift_m1: the primary indices are appended unshifted.
shift_m1_none(v, base) == v

\* Lines 62 and 63: the indices of a data point moved by the atom offset.
shift_nbr(m, base) == mat_add(m, base)
shift_m1(v, base) == vec_add(v, base)

\* Variant of new_idx: the group starts at 0 for every data point.
new_idx_zero(m1_i, base_m1) == arange_from(m1_i, 0)

\* Line 64: the group of a data point on the primary-index axis.
new_idx(m1_i, base_m1) == arange_from(m1_i, base_m1)

\* Variant of next_base_idx: the offset is set to, not advanced by, n_i.
next_base_idx_set(base, n_i) == n_i

\* Lines 69 and 70: the offsets after a data point.
next_base_idx(base, n_i) == base + n_i
next_base_m1_idx(base_m1, m1_i) == base_m1 + m1_i

\* Lines 56-70: one iteration of the loop over dataset_list.
CollateStep ==
    /\ cpc = "loop"
    /\ i < Len(dataset_list)
    /\ LET d == dataset_list[i + 1]
           n_i == Len(d.atom_fea)
           m1_i == Len(d.m1_index)
       IN /\ batch_atom_fea' = Append(batch_atom_fea, d.atom_fea)
          /\ batch_nbr_fea_idx' =
                 Append(batch_nbr_fea_idx, shift_nbr(d.nbr_fea_idx, base_idx))
          /\ batch_m1_index' = Append(batch_m1_index, shift_m1(d.m1_index, base_idx))
          /\ crystal_atom_idx' = Append(crystal_atom_idx, new_idx(m1_i, base_m1_idx))
          /\ batch_cif_ids' = Append(batch_cif_ids, d.cif_id)
          /\ base_idx' = next_base_idx(base_idx, n_i)
          /\ base_m1_idx' = next_base_m1_idx(base_m1_idx, m1_i)
    /\ i' = i + 1
    /\ UNCHANGED <<dataset_list, cpc, out, item_vars>>

\* Lines 71-78: the per-sample pieces are concatenated and returned.
CollateReturn ==
    /\ cpc = "loop"
    /\ i = Len(dataset_list)
    /\ out' = Some([atom_fea |-> cat(batch_atom_fea),
                    nbr_fea_idx |-> cat(batch_nbr_fea_idx),
                    m1_index |-> cat(batch_m1_index),
                    crystal_atom_idx |-> crystal_atom_idx,
                    cif_ids |-> batch_cif_ids])
    /\ cpc' = "returned"
    /\ UNCHANGED <<dataset_list, i, base_idx, base_m1_idx, batch_atom_fea,
                   batch_nbr_fea_idx, batch_m1_index, crystal_atom_idx,
                   batch_cif_ids, item_vars>>

NextCollate ==
    \/ CollateBegin
    \/ CollateStep
    \/ CollateReturn

SpecCollate == InitCollate /\ [][NextCollate]_vars

----
\* Properties of collate_pool.

K == Len(dataset_list)
n_atoms(k) == Len(dataset_list[k].atom_fea)
n_primary(k) == Len(dataset_list[k].m1_index)

\* Sum of n_atoms over the data points before the k-th.
atom_offset(k) == SeqSum([j \in 1..(k - 1) |-> n_atoms(j)])

\* Sum of the primary-index-vector lengths over the data points before the k-th.
group_offset(k) == SeqSum([j \in 1..(k - 1) |-> n_primary(j)])

\* Length of the flattened atom axis.
N == atom_offset(K + 1)

Returned == out # None
batch == out[1]

\* C1: every neighbour index and every primary index of data point k enters
\* the batch as its per-sample value plus the sum of n_atoms of the data points
\* before it, hence lies in [offset_k, offset_k + n_atoms_k); in the returned
\* batch the rows of data point k sit at offset_k + 1 .. offset_k + n_atoms_k of
\* an atom axis of length N, and every index is valid against that axis.
C1_IndicesOffset ==
    /\ \A k \in 1..Len(batch_nbr_fea_idx) :
        LET d == dataset_list[k]
            off == atom_offset(k)
        IN /\ \A a \in 1..n_atoms(k) : \A j \in 1..Len(d.nbr_fea_idx[a]) :
                  /\ batch_nbr_fea_idx[k][a][j] = d.nbr_fea_idx[a][j] + off
                  /\ batch_nbr_fea_idx[k][a][j] \in off..(off + n_atoms(k) - 1)
           /\ \A j \in 1..n_primary(k) :
                  /\ batch_m1_index[k][j] = d.m1_index[j] + off
                  /\ batch_m1_index[k][j] \in off..(off + n_atoms(k) - 1)
    /\ Returned =>
        /\ Len(batch.atom_fea) = N
        /\ Len(batch.nbr_fea_idx) = N
        /\ \A k \in 1..K : \A a \in 1..n_atoms(k) :
              LET row == batch.nbr_fea_idx[atom_offset(k) + a]
              IN \A j \in 1..Len(row) :
                    /\ row[j] = dataset_list[k].nbr_fea_idx[a][j] + atom_offset(k)
                    /\ row[j] \in 0..(N - 1)
        /\ \A k \in 1..K : \A j \in 1..n_primary(k) :
              LET v == batch.m1_index[group_offset(k) + j]
              IN /\ v = dataset_list[k].m1_index[j] + atom_offset(k)
                 /\ v \in 0..(N - 1)

\* C1 witness: three data points with n_atoms 1, 1, 2; the third one's
\* neighbour index 1 and primary index 1 are 3 in the batch.
C1_Witness ==
    /\ Returned
    /\ K = 3
    /\ n_atoms(1) = 1 /\ n_atoms(2) = 1 /\ n_atoms(3) = 2
    /\ dataset_list[3].nbr_fea_idx[2][1] = 1
    /\ batch.nbr_fea_idx[4][1] = 3
    /\ dataset_list[3].m1_index = <<1>>
    /\ batch.m1_index[Len(batch.m1_index)] = 3

\* C2: the grouping structure has one range per data point, in input order,
\* the k-th being [group_offset_k, group_offset_k + |primary vector k|); the
\* ranges one after the other are exactly the positions 0 .. L-1 of the
\* batched primary-index axis of length L.
C2_GroupsPartition ==
    /\ \A k \in 1..Len(crystal_atom_idx) :
        /\ Len(crystal_atom_idx[k]) = n_primary(k)
        /\ \A j \in 1..n_primary(k) : crystal_atom_idx[k][j] = group_offset(k) + j - 1
    /\ Returned =>
        /\ Len(batch.crystal_atom_idx) = K
        /\ Flatten(batch.crystal_atom_idx)
               = [q \in 1..Len(batch.m1_index) |-> q - 1]

\* C2 witness: three data points with 1, 1 and 2 primary indices.
C2_Witness ==
    /\ Returned
    /\ batch.crystal_atom_idx = << <<0>>, <<1>>, <<2, 3>> >>

====
